---- MODULE Spec2Model ----
(***************************************************************************)
(* Model of imgui-rs-backends: the draw-command iterator of helper.rs and  *)
(* the three renderers (fna3d, glow, rokol) that consume it.               *)
(*                                                                         *)
(* f32 values are modelled by integers: every value the model uses is a    *)
(* small integer, on which f32 subtraction, multiplication and comparison  *)
(* are exact.  Slices (&[DrawVert], &[DrawIdx]) are modelled by the index  *)
(* of the draw list that owns them and their length.                       *)
(***************************************************************************)
EXTENDS Integers, Sequences, FiniteSets, TLC

VARIABLES
    draw_data,      \* imgui::DrawData handed to DrawParamsIterator::new / render
    iter,           \* DrawParamsIterator (helper.rs:186-197)
    out,            \* result of the last call of DrawParamsIterator::next
    ncalls,         \* number of calls of next on the current iterator
    visited,        \* commands taken from the command iterators, in order
    emitted,        \* DrawParams returned by next so far, in order
    callbacks,      \* RawCallback invocations made by next so far, in order
    renderer,       \* ImGuiFna3d, ImGuiGlow or ImGuiRokolGfx
    pc,             \* "idle" between two calls of render, "done" after one
    trace,          \* what the last operation did, in order: device calls,
                    \* texture lookups
    result,         \* what the last call of render returned
    resolved,       \* the last texture lookup: the id and what it gave
    last_id,        \* the id the last Textures::insert returned
    upload,         \* the last geometry upload: its size and the capacity before
    fonts,          \* imgui's font atlas (imgui.fonts()): its tex_id
    created,        \* what the constructor of the renderer did, in order
    proj,           \* the last call of ortho_mat_gl: its arguments and result
    gpu,            \* the GPU textures: the live owners of each and the
                    \* releases the device has received for it
    backend         \* Backend / BackendUi (lib.rs): whether a frame is open,
                    \* the calls made on the platform, imgui and the
                    \* renderer, and the number of frames begun

vars == <<draw_data, iter, out, ncalls, visited, emitted, callbacks,
          renderer, pc, trace, result, resolved, last_id, upload,
          fonts, created, proj, gpu, backend>>

iter_vars == <<draw_data, iter, out, ncalls, visited, emitted, callbacks>>
render_vars == <<renderer, pc, trace, result, resolved, last_id, upload>>
ctor_vars == <<fonts, created>>
ext_vars == <<gpu, backend>>

-----------------------------------------------------------------------------
(* Bounds of the model *)

\* a frame has at most MaxLists draw lists
MaxLists == 2
\* a frame has at most MaxFrameCmds draw commands, over all its lists
MaxFrameCmds == 3
\* next is called at most MaxNextCalls times on one iterator
MaxNextCalls == 5

-----------------------------------------------------------------------------
(* Program constants *)

\* usize::MAX; the model's integers end at 2^31 - 1
USIZE_MAX == 2147483647
\* pub const FONT_TEXTUER_ID: usize = usize::MAX
FONT_TEXTUER_ID == USIZE_MAX

None == [some |-> FALSE]
Some(v) == [some |-> TRUE, val |-> v]

\* no renderer has been constructed
NoRenderer == [kind |-> "none"]

-----------------------------------------------------------------------------
(* Frames: the inputs of the iterator *)

Elements(count, vtx_offset, clip_rect, texture_id) ==
    [type |-> "Elements", count |-> count, vtx_offset |-> vtx_offset,
     clip_rect |-> clip_rect, texture_id |-> texture_id]
ResetRenderState == [type |-> "ResetRenderState"]
RawCallback(callback, raw_cmd) ==
    [type |-> "RawCallback", callback |-> callback, raw_cmd |-> raw_cmd]

\* number of indices of a command (none for the two advisory commands)
CmdCount(cmd) == IF cmd.type = "Elements" THEN cmd.count ELSE 0

RECURSIVE SumCounts(_, _)
SumCounts(cmds, n) ==
    IF n = 0 THEN 0 ELSE SumCounts(cmds, n - 1) + CmdCount(cmds[n])

\* A draw list as imgui builds it: the index offset of a command is the number
\* of indices of the commands before it, the index buffer holds the indices of
\* all commands and there are four vertices for six indices.
DrawList(cmds) ==
    [cmds |-> [j \in 1..Len(cmds) |->
                  IF cmds[j].type = "Elements"
                  THEN [type |-> "Elements", count |-> cmds[j].count,
                        cmd_params |->
                            [clip_rect |-> cmds[j].clip_rect,
                             texture_id |-> cmds[j].texture_id,
                             vtx_offset |-> cmds[j].vtx_offset,
                             idx_offset |-> SumCounts(cmds, j - 1)]]
                  ELSE cmds[j]],
     idx_len |-> SumCounts(cmds, Len(cmds)),
     vtx_len |-> (SumCounts(cmds, Len(cmds)) * 4) \div 6]

\* the sequences of exactly n elements of S
RECURSIVE SeqsOfLen(_, _)
SeqsOfLen(S, n) ==
    IF n = 0 THEN {<<>>}
    ELSE {Append(s, x) : s \in SeqsOfLen(S, n - 1), x \in S}

\* sequences of at most nl draw lists with at most nc commands altogether
RECURSIVE ListSeqs(_, _, _)
ListSeqs(T, nl, nc) ==
    IF nl = 0 THEN {<<>>}
    ELSE {<<>>} \cup
         UNION {{<<DrawList(cs)>> \o rest :
                     cs \in SeqsOfLen(T, k), rest \in ListSeqs(T, nl - 1, nc - k)}
                : k \in 0..nc}

DrawData(display, lists) ==
    [display_pos |-> display.display_pos,
     display_size |-> display.display_size,
     framebuffer_scale |-> display.framebuffer_scale,
     lists |-> lists]

Display(pos, size, scale) ==
    [display_pos |-> pos, display_size |-> size, framebuffer_scale |-> scale]

\* 800x600 at the origin; the same display on a 2x screen, moved to (100, 50);
\* a window minimised to zero width; a zero vertical framebuffer scale
IterDisplays ==
    {Display(<<0, 0>>, <<800, 600>>, <<1, 1>>),
     Display(<<100, 50>>, <<800, 600>>, <<2, 2>>),
     Display(<<0, 0>>, <<0, 600>>, <<1, 1>>),
     Display(<<0, 0>>, <<800, 600>>, <<1, 0>>)}

\* Commands of the frames with several commands: a clip rect that covers an
\* 800x600 framebuffer, one right of it, one that ends on its origin, and the
\* two advisory commands
IterCmds ==
    {Elements(600, 0, <<0, 0, 800, 600>>, FONT_TEXTUER_ID),
     Elements(6, 4, <<900, 0, 950, 50>>, 0),
     Elements(12, 8, <<-20, -10, 0, 0>>, 1),
     ResetRenderState,
     RawCallback("cb", "payload")}

\* Commands of the frames with a single command: clip rects on either side of
\* each edge of an 800x600 framebuffer
EdgeCmds ==
    {Elements(6, 0, <<800, 0, 850, 50>>, FONT_TEXTUER_ID),
     Elements(6, 0, <<799, 0, 850, 50>>, FONT_TEXTUER_ID),
     Elements(6, 0, <<0, 600, 50, 650>>, FONT_TEXTUER_ID),
     Elements(6, 0, <<0, 599, 50, 650>>, FONT_TEXTUER_ID),
     Elements(6, 0, <<-50, 0, -1, 50>>, FONT_TEXTUER_ID),
     Elements(6, 0, <<-50, 0, 0, 50>>, FONT_TEXTUER_ID),
     Elements(6, 0, <<0, -50, 50, -1>>, FONT_TEXTUER_ID),
     Elements(6, 0, <<0, -50, 50, 0>>, FONT_TEXTUER_ID)}

EdgeFrames ==
    {DrawData(d, <<DrawList(<<c>>)>>) : d \in IterDisplays, c \in EdgeCmds}

IterFrames ==
    {DrawData(d, ls) : d \in IterDisplays,
                       ls \in ListSeqs(IterCmds, MaxLists, MaxFrameCmds)}
    \cup EdgeFrames

-----------------------------------------------------------------------------
(* helper.rs: Rect, DrawParams, DrawParamsIterator *)

Rect(left, top, right, bottom) ==
    [left |-> left, top |-> top, right |-> right, bottom |-> bottom]

\* DrawListIterator::next and DrawCmdIterator::next walk a slice: position p
\* of a slice of length n
SliceNext(p, n) == IF p < n THEN [item |-> Some(p + 1), pos |-> p + 1]
                   ELSE [item |-> None, pos |-> p]

\* a quotient num / den of two f64 values, kept as the pair
Frac(num, den) == [num |-> num, den |-> den]

\* ortho_mat_gl: the 16 entries, in the order of the array
OrthoMatGl(left, right, bottom, top, near, far) ==
    [i \in 0..15 |->
        CASE i = 0 -> Frac(2, right - left)
          [] i = 5 -> Frac(2, top - bottom)
          [] i = 10 -> Frac(-2, far - near)
          [] i = 12 -> Frac(-(right + left), right - left)
          [] i = 13 -> Frac(-(top + bottom), top - bottom)
          [] i = 14 -> Frac(near, near - far)
          [] i = 15 -> Frac(1, 1)
          [] OTHER -> Frac(0, 1)]

\* DrawParamsIterator::new without the test of the framebuffer size
DrawParamsIteratorNewUnchecked(data) ==
    [fb_width |-> data.display_size[1] * data.framebuffer_scale[1],
     fb_height |-> data.display_size[2] * data.framebuffer_scale[2],
     clip_off |-> data.display_pos,
     clip_scale |-> data.framebuffer_scale,
     display_rect |-> Rect(data.display_pos[1],
                           data.display_pos[2] + data.display_size[2],
                           data.display_pos[1] + data.display_size[1],
                           data.display_pos[2]),
     draw_lists |-> SliceNext(0, Len(data.lists)).pos,
     draw_list |-> SliceNext(0, Len(data.lists)).item,
     draw_commands |-> IF SliceNext(0, Len(data.lists)).item.some
                       THEN Some([list |-> 1, pos |-> 0])
                       ELSE None]

\* DrawParamsIterator::new
DrawParamsIteratorNew(data) ==
    LET fb_width == data.display_size[1] * data.framebuffer_scale[1]
        fb_height == data.display_size[2] * data.framebuffer_scale[2]
        clip_off == data.display_pos
        clip_scale == data.framebuffer_scale
        display_rect ==
            Rect(data.display_pos[1],
                 data.display_pos[2] + data.display_size[2],
                 data.display_pos[1] + data.display_size[1],
                 data.display_pos[2])
        base == [fb_width |-> fb_width, fb_height |-> fb_height,
                 clip_off |-> clip_off, clip_scale |-> clip_scale,
                 display_rect |-> display_rect]
        first == SliceNext(0, Len(data.lists))
    IN  IF fb_width <= 0 \/ fb_height <= 0
        THEN base @@ [draw_lists |-> 0, draw_list |-> None, draw_commands |-> None]
        ELSE IF first.item.some
             THEN base @@ [draw_lists |-> first.pos,
                           draw_list |-> first.item,
                           draw_commands |-> Some([list |-> first.item.val, pos |-> 0])]
             ELSE base @@ [draw_lists |-> first.pos,
                           draw_list |-> None, draw_commands |-> None]

\* the clip rect with its right and bottom taken as they come
TransformClipRectLeftTopOnly(clip_rect, clip_off, clip_scale) ==
    <<(clip_rect[1] - clip_off[1]) * clip_scale[1],
      (clip_rect[2] - clip_off[2]) * clip_scale[2],
      clip_rect[3] * clip_scale[1],
      clip_rect[4] * clip_scale[2]>>

\* the clip rect in framebuffer space (helper.rs:276-283)
TransformClipRect(clip_rect, clip_off, clip_scale) ==
    <<(clip_rect[1] - clip_off[1]) * clip_scale[1],
      (clip_rect[2] - clip_off[2]) * clip_scale[2],
      (clip_rect[3] - clip_off[1]) * clip_scale[1],
      (clip_rect[4] - clip_off[2]) * clip_scale[2]>>

\* the test with a strict comparison on the right and bottom edges of the
\* framebuffer
IsCulledStrict(clip_rect, fb_width, fb_height) ==
    \/ clip_rect[1] > fb_width
    \/ clip_rect[2] > fb_height
    \/ clip_rect[3] < 0
    \/ clip_rect[4] < 0

\* the test that skips a command (helper.rs:285-291)
IsCulled(clip_rect, fb_width, fb_height) ==
    \/ clip_rect[1] >= fb_width
    \/ clip_rect[2] >= fb_height
    \/ clip_rect[3] < 0
    \/ clip_rect[4] < 0

\* the scissor rect of an emitted command (helper.rs:294-301)
Scissor(clip_rect, clip_scale, fb_height) ==
    Rect(clip_rect[1] * clip_scale[1],
         fb_height - clip_rect[4] * clip_scale[2],
         (clip_rect[3] - clip_rect[1]) * clip_scale[1],
         (clip_rect[4] - clip_rect[2]) * clip_scale[2])

\* the DrawParams with the buffers of the first list of the frame
MakeDrawParamsFirstList(data, it, cmd) ==
    [display |-> it.display_rect,
     vtx_buffer |-> [list |-> 1, len |-> data.lists[1].vtx_len],
     vtx_offset |-> cmd.cmd_params.vtx_offset,
     idx_buffer |-> [list |-> 1, len |-> data.lists[1].idx_len],
     idx_offset |-> cmd.cmd_params.idx_offset,
     n_elems |-> cmd.count,
     tex_id |-> cmd.cmd_params.texture_id,
     scissor |-> Scissor(cmd.cmd_params.clip_rect, it.clip_scale, it.fb_height)]

\* the DrawParams built for an Elements command (helper.rs:303-312)
MakeDrawParams(data, it, cmd) ==
    LET list == data.lists[it.draw_list.val]
    IN  [display |-> it.display_rect,
         vtx_buffer |-> [list |-> it.draw_list.val, len |-> list.vtx_len],
         vtx_offset |-> cmd.cmd_params.vtx_offset,
         idx_buffer |-> [list |-> it.draw_list.val, len |-> list.idx_len],
         idx_offset |-> cmd.cmd_params.idx_offset,
         n_elems |-> cmd.count,
         tex_id |-> cmd.cmd_params.texture_id,
         scissor |-> Scissor(cmd.cmd_params.clip_rect, it.clip_scale, it.fb_height)]

\* a command taken from the command iterator of a list: the list, the place of
\* the command in it and, for an Elements command, the local clip_rect that
\* next computes for it (helper.rs:276-283)
Visit(list, k, cmd, it) ==
    [list |-> list, cmd |-> k,
     clip_rect |-> IF cmd.type = "Elements"
                   THEN TransformClipRect(cmd.cmd_params.clip_rect,
                                          it.clip_off, it.clip_scale)
                   ELSE <<>>]

\* what one call of next returns: the iterator after the call, the item, and
\* what the call did on its way (commands taken, callbacks invoked)
NextResult(it, item, seen, called) ==
    [iter |-> it, item |-> item, visited |-> seen, callbacks |-> called]

\* "go to next list" where the lists begin again after the last one
GoToNextListCycle(it, nl) ==
    [it EXCEPT !.draw_lists = IF nl.item.some THEN nl.pos ELSE 0,
               !.draw_list = nl.item,
               !.draw_commands = IF nl.item.some
                                 THEN Some([list |-> nl.item.val, pos |-> 0])
                                 ELSE it.draw_commands]

\* "go to next list": nl is what self.draw_lists.next() returned; with no list
\* left `self.draw_list?` returns from next and draw_commands stays as it is
GoToNextList(it, nl) ==
    [it EXCEPT !.draw_lists = nl.pos,
               !.draw_list = nl.item,
               !.draw_commands = IF nl.item.some
                                 THEN Some([list |-> nl.item.val, pos |-> 0])
                                 ELSE it.draw_commands]

\* DrawParamsIterator::next: the loop 'next with its inner loop
RECURSIVE DrawParamsIteratorNext(_, _, _)
DrawParamsIteratorNext(data, it, seen) ==
    IF ~it.draw_commands.some
    THEN NextResult(it, None, seen, <<>>)
    ELSE
    LET dc == it.draw_commands.val
        step == SliceNext(dc.pos, Len(data.lists[dc.list].cmds))
    IN  IF ~step.item.some
        THEN \* go to next list
             LET it1 == GoToNextList(it, SliceNext(it.draw_lists, Len(data.lists)))
             IN  IF ~it1.draw_list.some
                 THEN NextResult(it1, None, seen, <<>>)
                 ELSE DrawParamsIteratorNext(data, it1, seen)
        ELSE
        LET cmd == data.lists[dc.list].cmds[step.item.val]
            it1 == [it EXCEPT !.draw_commands = Some([list |-> dc.list, pos |-> step.pos])]
            seen1 == Append(seen, Visit(dc.list, step.item.val, cmd, it))
        IN  CASE cmd.type = "Elements" ->
                   IF IsCulled(seen1[Len(seen1)].clip_rect, it.fb_width, it.fb_height)
                   THEN DrawParamsIteratorNext(data, it1, seen1)
                   ELSE IF ~it1.draw_list.some
                        THEN NextResult(it1, None, seen1, <<>>)
                        ELSE NextResult(it1, Some(MakeDrawParams(data, it1, cmd)),
                                        seen1, <<>>)
              [] cmd.type = "ResetRenderState" ->
                   NextResult(it1, None, seen1, <<>>)
              [] cmd.type = "RawCallback" ->
                   IF ~it1.draw_list.some
                   THEN NextResult(it1, None, seen1, <<>>)
                   ELSE NextResult(it1, None, seen1,
                                   <<[callback |-> cmd.callback,
                                      raw |-> it1.draw_list.val,
                                      raw_cmd |-> cmd.raw_cmd,
                                      after |-> seen1]>>)

-----------------------------------------------------------------------------
(* Sizes *)

\* fna3d.rs: const VERT_SIZE, const INDEX_SIZE, pub const N_QUADS
VERT_SIZE == 20
INDEX_SIZE == 2
FNA3D_N_QUADS == 8192
\* glow/res.rs: pub const N_QUADS
GLOW_N_QUADS == 2048
\* size_of::<imgui::DrawVert>(): pos [f32; 2], uv [f32; 2], col [u8; 4]
SizeOfDrawVert == 20
\* size_of::<imgui::DrawIdx>(): a 16 bit index
SizeOfDrawIdx == 2

-----------------------------------------------------------------------------
(* What an operation did, in order *)

\* a call made on the device; kind sorts the calls of the three devices into
\* "upload", "uniform", "scissor", "texture", "draw" and "state"
Call(op, kind, args) == [op |-> op, kind |-> kind, args |-> args]

Ok == [ok |-> TRUE]
\* ImGuiRendererError::BadTexture(id), and the messages built from the id
BadTexture(id) == [ok |-> FALSE, err |-> "BadTexture", id |-> id]
\* a failed assert!: the thread panics
Panic == [ok |-> FALSE, err |-> "panic"]

-----------------------------------------------------------------------------
(* imgui::Textures<T>, the registry behind textures_mut() *)

\* Textures::new
TexturesNew == [map |-> [i \in {} |-> "none"], next |-> 0]

\* Textures::insert: the next free id
TexturesInsert(t, texture) ==
    [textures |-> [map |-> (t.next :> texture) @@ t.map, next |-> t.next + 1],
     id |-> t.next]

\* Textures::replace
TexturesReplace(t, id, texture) ==
    [t EXCEPT !.map = (id :> texture) @@ t.map]

\* Textures::remove
TexturesRemove(t, id) ==
    [t EXCEPT !.map = [i \in (DOMAIN t.map) \ {id} |-> t.map[i]]]

\* Textures::get
TexturesGet(t, id) == IF id \in DOMAIN t.map THEN Some(t.map[id]) ELSE None

-----------------------------------------------------------------------------
(* renderer/fna3d.rs *)

\* GpuVertexBuffer::new, GpuIndexBuffer::new
GpuVertexBufferNew(buf, n_vertices) ==
    [buf |-> buf, capacity_in_bytes |-> VERT_SIZE * n_vertices]
GpuIndexBufferNew(buf, n_indices) ==
    [buf |-> buf, capacity_in_bytes |-> INDEX_SIZE * n_indices]

\* the byte length upload_vertices and upload_indices compare with the capacity
VertexUploadLen(data_len, size_of_T) == VERT_SIZE * (data_len + size_of_T)
IndexUploadLen(data_len, size_of_T) == INDEX_SIZE * (data_len + size_of_T)

\* GpuVertexBuffer::upload_vertices(data): the buffer, the device's next
\* buffer handle and the calls made
GpuVertexBufferUpload(vbuf, next_buf, data, size_of_T) ==
    LET len == VertexUploadLen(data.len, size_of_T)
        grow == len > vbuf.capacity_in_bytes
        vbuf1 == IF grow THEN [buf |-> next_buf, capacity_in_bytes |-> len] ELSE vbuf
    IN  [buffer |-> vbuf1,
         next_buf |-> IF grow THEN next_buf + 1 ELSE next_buf,
         calls |->
            (IF grow
             THEN <<Call("add_dispose_vertex_buffer", "state", [buf |-> vbuf.buf]),
                    Call("gen_vertex_buffer", "state", [buf |-> next_buf, size |-> len])>>
             ELSE <<>>)
            \o <<Call("set_vertex_buffer_data", "upload",
                      [buf |-> vbuf1.buf, offset |-> 0, data |-> data])>>]

\* GpuIndexBuffer::upload_indices(data)
GpuIndexBufferUpload(ibuf, next_buf, data, size_of_T) ==
    LET len == IndexUploadLen(data.len, size_of_T)
        grow == len > ibuf.capacity_in_bytes
        ibuf1 == IF grow THEN [buf |-> next_buf, capacity_in_bytes |-> len] ELSE ibuf
    IN  [buffer |-> ibuf1,
         next_buf |-> IF grow THEN next_buf + 1 ELSE next_buf,
         calls |->
            (IF grow
             THEN <<Call("add_dispose_index_buffer", "state", [buf |-> ibuf.buf]),
                    Call("gen_index_buffer", "state", [buf |-> next_buf, size |-> len])>>
             ELSE <<>>)
            \o <<Call("set_index_buffer_data", "upload",
                      [buf |-> ibuf1.buf, offset |-> 0, data |-> data])>>]

\* Batch::new: the two buffers, for N_QUADS quads
BatchNew ==
    [vbuf |-> GpuVertexBufferNew(1, 4 * FNA3D_N_QUADS),
     ibuf |-> GpuIndexBufferNew(2, 6 * FNA3D_N_QUADS),
     next_buf |-> 3]

\* Batch::set_buffers: upload_vertices (v), then upload_indices
BatchSetIndices(batch, v, i) ==
    [batch |-> [vbuf |-> v.buffer, ibuf |-> i.buffer, next_buf |-> i.next_buf],
     calls |-> v.calls \o i.calls]
BatchSetVertices(batch, v, idx_buffer) ==
    BatchSetIndices(batch, v,
                    GpuIndexBufferUpload(batch.ibuf, v.next_buf, idx_buffer, SizeOfDrawIdx))
BatchSetBuffers(batch, vtx_buffer, idx_buffer) ==
    BatchSetVertices(
        batch,
        GpuVertexBufferUpload(batch.vbuf, batch.next_buf, vtx_buffer, SizeOfDrawVert),
        idx_buffer)

\* Batch::prepare_draw
BatchPrepareDraw(batch, texture, vtx_offset) ==
    <<Call("apply_effect", "state", [pass |-> 0]),
      Call("verify_sampler", "texture", [slot |-> 0, texture |-> texture]),
      Call("apply_vertex_buffer_bindings", "state",
           [vertexBuffer |-> batch.vbuf.buf, vertexOffset |-> 0,
            base_vertex |-> vtx_offset])>>

\* ImGuiFna3d::load_font_texture: the texture, the atlas afterwards and the
\* calls made, in order
Fna3dLoadFontTexture ==
    [texture |-> "font",
     fonts |-> [tex_id |-> USIZE_MAX],
     calls |-> <<Call("build_rgba32_texture", "atlas", [data |-> "rgba32"]),
                 Call("create_texture_2d", "font_create", [texture |-> "font"]),
                 Call("set_texture_data_2d", "font_data",
                      [texture |-> "font", data |-> "rgba32"]),
                 Call("fonts.tex_id", "tex_id", [tex_id |-> USIZE_MAX])>>]

\* ImGuiFna3d::init with the font texture stored in the registry as well
ImGuiFna3dInitFontInRegistry ==
    [kind |-> "fna3d",
     textures |-> [map |-> (USIZE_MAX :> "font"), next |-> 0],
     font_texture |-> "font",
     batch |-> BatchNew]

\* ImGuiFna3d::init
ImGuiFna3dInit ==
    [kind |-> "fna3d", textures |-> TexturesNew,
     font_texture |-> Fna3dLoadFontTexture.texture,
     batch |-> BatchNew]

\* Rect::width, Rect::height
Abs(x) == IF x < 0 THEN -x ELSE x
RectWidth(r) == Abs(r.right - r.left)
RectHeight(r) == Abs(r.top - r.bottom)

\* the lookup that asks the registry first
Fna3dLookupTextureRegistryFirst(r, tex_id) ==
    IF TexturesGet(r.textures, tex_id).some
    THEN TexturesGet(r.textures, tex_id)
    ELSE IF tex_id = USIZE_MAX THEN Some(r.font_texture) ELSE None

\* the texture of a draw call in ImGuiFna3d::draw (fna3d.rs:213-221)
Fna3dLookupTexture(r, tex_id) ==
    IF tex_id = USIZE_MAX
    THEN Some(r.font_texture)
    ELSE TexturesGet(r.textures, tex_id)

\* what a call of draw returns: the renderer after it, the calls made and
\* the result
DrawResult(r, calls, res) == [renderer |-> r, calls |-> calls, result |-> res]

\* a texture lookup, as an entry of the trace
Lookup(tex_id, found) ==
    Call("lookup_texture", "lookup", [tex_id |-> tex_id, found |-> found])

\* the same with the top and the bottom of the display rect in the places of
\* the projection that bear their names
Fna3dDrawFirstUnswapped(r, params, set) ==
    [renderer |-> [r EXCEPT !.batch = set.batch],
     calls |-> set.calls \o
               <<Call("set_param", "uniform",
                      [left |-> params.display.left, right |-> params.display.right,
                       bottom |-> params.display.bottom, top |-> params.display.top,
                       near |-> 0, far |-> 1])>>]

\* ImGuiFna3d::draw, `if params.idx_offset == 0`: the buffers (set is what
\* set_buffers did) and the projection matrix
Fna3dDrawFirst(r, params, set) ==
    [renderer |-> [r EXCEPT !.batch = set.batch],
     calls |-> set.calls \o
               <<Call("set_param", "uniform",
                      [left |-> params.display.left, right |-> params.display.right,
                       bottom |-> params.display.top, top |-> params.display.bottom,
                       near |-> 0, far |-> 1])>>]

\* ImGuiFna3d::draw, from `// 1. scissor` on: s is the renderer and the calls
\* so far, texture what the lookup gave
Fna3dDrawRest(s, params, texture) ==
    IF ~texture.some
    THEN DrawResult(
             s.renderer,
             s.calls
             \o <<Call("set_scissor_rect", "scissor",
                       [x |-> params.scissor.left, y |-> params.scissor.top,
                        w |-> RectWidth(params.scissor),
                        h |-> RectHeight(params.scissor)]),
                  Lookup(params.tex_id, texture)>>,
             BadTexture(params.tex_id))
    ELSE DrawResult(
             s.renderer,
             s.calls
             \o <<Call("set_scissor_rect", "scissor",
                       [x |-> params.scissor.left, y |-> params.scissor.top,
                        w |-> RectWidth(params.scissor),
                        h |-> RectHeight(params.scissor)]),
                  Lookup(params.tex_id, texture)>>
             \o BatchPrepareDraw(s.renderer.batch, texture.val, params.vtx_offset)
             \o <<Call("draw_indexed_primitives", "draw",
                       [base_vertex |-> params.vtx_offset, min_vertex_index |-> 0,
                        num_vertices |-> (params.n_elems * 2) \div 3,
                        start_index |-> params.idx_offset,
                        primitive_count |-> params.n_elems \div 3,
                        indices |-> s.renderer.batch.ibuf.buf])>>,
             Ok)

Fna3dDrawLookup(s, params) ==
    Fna3dDrawRest(s, params, Fna3dLookupTexture(s.renderer, params.tex_id))

\* ImGuiFna3d::draw
ImGuiFna3dDraw(r, params) ==
    Fna3dDrawLookup(
        IF params.idx_offset = 0
        THEN Fna3dDrawFirst(r, params,
                            BatchSetBuffers(r.batch, params.vtx_buffer, params.idx_buffer))
        ELSE [renderer |-> r, calls |-> <<>>],
        params)

\* ImGuiFna3d::before_render
ImGuiFna3dBeforeRender == <<Call("set_blend_state", "state", [blend |-> "non_premultiplied"])>>

-----------------------------------------------------------------------------
(* renderer/glow.rs, renderer/glow/res.rs *)

\* Buffer::new
BufferNew(size_of_T, len) == [len_bytes |-> 0, capacity_bytes |-> size_of_T * len]

\* Buffer::reset_offset
BufferResetOffset(b) == [b EXCEPT !.len_bytes = 0]

\* Buffer::append: the assert, the write at the old offset, the new offset
BufferAppend(b, type_, data, size_of_T) ==
    LET len_bytes == size_of_T * data.len
        new_len_bytes == b.len_bytes + len_bytes
    IN  IF ~(new_len_bytes <= b.capacity_bytes)
        THEN [buffer |-> b, calls |-> <<>>, result |-> Panic]
        ELSE [buffer |-> [b EXCEPT !.len_bytes = new_len_bytes],
              calls |-> <<Call("buffer_sub_data_u8_slice", "upload",
                               [target |-> type_, offset |-> b.len_bytes,
                                bytes |-> len_bytes, data |-> data])>>,
              result |-> Ok]

\* Resources::new
ResourcesNew ==
    [vbuf |-> BufferNew(SizeOfDrawVert, 4 * GLOW_N_QUADS * SizeOfDrawVert),
     ibuf |-> BufferNew(SizeOfDrawIdx, 6 * GLOW_N_QUADS * SizeOfDrawIdx),
     tex |-> None]

\* Resources::reset_buf_offsets
ResourcesResetBufOffsets(res) ==
    [res EXCEPT !.vbuf = BufferResetOffset(res.vbuf),
                !.ibuf = BufferResetOffset(res.ibuf)]

\* Resources::set_texture
ResourcesSetTexture(res, tex) == [res EXCEPT !.tex = Some(tex)]

\* Resources::bind: the vertex array, the buffers, the program and the
\* texture of the slot
ResourcesBind(res) == <<Call("bind", "texture", [texture |-> res.tex])>>

\* Resources::unbind
ResourcesUnbind == <<Call("unbind", "state", [texture |-> None])>>

\* Resources::set_uniforms
ResourcesSetUniforms(mat) == <<Call("uniform_matrix_4_f32_slice", "uniform", mat)>>

\* Resources::draw(gl, n_elems, idx_offset, vtx_offset)
ResourcesDraw(n_elems, idx_offset, vtx_offset) ==
    <<Call("draw_elements_base_vertex", "draw",
           [count |-> n_elems, offset |-> idx_offset * SizeOfDrawIdx,
            base_vertex |-> vtx_offset])>>

\* ImGuiGlow::load_font_texture
GlowLoadFontTexture ==
    [texture |-> "font",
     fonts |-> [tex_id |-> FONT_TEXTUER_ID],
     calls |-> <<Call("build_rgba32_texture", "atlas", [data |-> "rgba32"]),
                 Call("Texture::new", "font_data",
                      [texture |-> "font", data |-> "rgba32"]),
                 Call("fonts.tex_id", "tex_id", [tex_id |-> FONT_TEXTUER_ID])>>]

\* ImGuiGlow::new
ImGuiGlowNew ==
    [kind |-> "glow", textures |-> TexturesNew,
     font_texture |-> GlowLoadFontTexture.texture,
     res |-> ResourcesSetTexture(ResourcesNew, GlowLoadFontTexture.texture)]

\* ImGuiGlow::lookup_texture
GlowLookupTexture(r, tex_id) ==
    IF tex_id = FONT_TEXTUER_ID
    THEN Some(r.font_texture)
    ELSE IF TexturesGet(r.textures, tex_id).some
         THEN TexturesGet(r.textures, tex_id)
         ELSE None

\* before_render that binds and leaves the write offsets where they are
ImGuiGlowBeforeRenderNoReset(r) ==
    [renderer |-> r, calls |-> ResourcesBind(r.res)]

\* ImGuiGlow::before_render
ImGuiGlowBeforeRender(r) ==
    [renderer |-> [r EXCEPT !.res = ResourcesResetBufOffsets(r.res)],
     calls |-> ResourcesBind(ResourcesResetBufOffsets(r.res))]

\* ImGuiGlow::after_render
ImGuiGlowAfterRender == ResourcesUnbind

\* the arguments of ortho_mat_gl, as the renderers pass them
OrthoArgs(left, right, bottom, top, near, far) ==
    [left |-> left, right |-> right, bottom |-> bottom, top |-> top,
     near |-> near, far |-> far]

\* ImGuiGlow::draw, `if params.idx_offset == 0`: v is what append_vbuf did;
\* a failed assert leaves draw at once
GlowDrawFirstIbuf(r, params, v, i) ==
    IF ~i.result.ok
    THEN [renderer |-> [r EXCEPT !.res.vbuf = v.buffer], calls |-> v.calls,
          result |-> Panic]
    ELSE [renderer |-> [r EXCEPT !.res.vbuf = v.buffer, !.res.ibuf = i.buffer],
          calls |-> v.calls \o i.calls \o
                    ResourcesSetUniforms(
                        OrthoArgs(params.display.left, params.display.right,
                                  params.display.top, params.display.bottom, 0, 1)),
          result |-> Ok]

GlowDrawFirst(r, params, v) ==
    IF ~v.result.ok
    THEN [renderer |-> r, calls |-> <<>>, result |-> Panic]
    ELSE GlowDrawFirstIbuf(r, params, v,
                           BufferAppend(r.res.ibuf, "ELEMENT_ARRAY_BUFFER",
                                        params.idx_buffer, SizeOfDrawIdx))

\* ImGuiGlow::draw, the unsafe block: scissor, texture, draw.  The call of
\* Resources::draw passes idx_offset, then n_elems, and no third argument.
GlowDrawRest(s, params, tex) ==
    IF ~s.result.ok
    THEN DrawResult(s.renderer, s.calls, s.result)
    ELSE IF ~tex.some
    THEN DrawResult(
             s.renderer,
             s.calls
             \o <<Call("scissor", "scissor",
                       [x |-> params.scissor.left, y |-> params.scissor.top,
                        w |-> params.scissor.right, h |-> params.scissor.bottom]),
                  Lookup(params.tex_id, tex)>>,
             BadTexture(params.tex_id))
    ELSE DrawResult(
             [s.renderer EXCEPT !.res = ResourcesSetTexture(s.renderer.res, tex.val)],
             s.calls
             \o <<Call("scissor", "scissor",
                       [x |-> params.scissor.left, y |-> params.scissor.top,
                        w |-> params.scissor.right, h |-> params.scissor.bottom]),
                  Lookup(params.tex_id, tex)>>
             \o ResourcesBind(ResourcesSetTexture(s.renderer.res, tex.val))
             \o ResourcesDraw(params.idx_offset, params.n_elems, None),
             Ok)

GlowDrawLookup(s, params) ==
    GlowDrawRest(s, params, GlowLookupTexture(s.renderer, params.tex_id))

\* ImGuiGlow::draw
ImGuiGlowDraw(r, params) ==
    GlowDrawLookup(
        IF params.idx_offset = 0
        THEN GlowDrawFirst(r, params,
                           BufferAppend(r.res.vbuf, "ARRAY_BUFFER", params.vtx_buffer,
                                        SizeOfDrawVert))
        ELSE [renderer |-> r, calls |-> <<>>, result |-> Ok],
        params)

-----------------------------------------------------------------------------
(* renderer/rokol.rs *)

\* load_font_texture that sets the id of the atlas before it builds the atlas
RokolLoadFontTextureIdFirst ==
    [texture |-> "font",
     fonts |-> [tex_id |-> FONT_TEXTUER_ID],
     calls |-> <<Call("fonts.tex_id", "tex_id", [tex_id |-> FONT_TEXTUER_ID]),
                 Call("build_rgba32_texture", "atlas", [data |-> "rgba32"]),
                 Call("Image::create", "font_data",
                      [texture |-> "font", data |-> "rgba32"])>>]

\* ImGuiRokolGfx::load_font_texture
RokolLoadFontTexture ==
    [texture |-> "font",
     fonts |-> [tex_id |-> FONT_TEXTUER_ID],
     calls |-> <<Call("build_rgba32_texture", "atlas", [data |-> "rgba32"]),
                 Call("Image::create", "font_data",
                      [texture |-> "font", data |-> "rgba32"]),
                 Call("fonts.tex_id", "tex_id", [tex_id |-> FONT_TEXTUER_ID])>>]

\* ImGuiRokolGfx::new, with the bindings of create_bindings
ImGuiRokolGfxNew ==
    [kind |-> "rokol", textures |-> TexturesNew,
     font_texture |-> RokolLoadFontTexture.texture,
     binds |-> [vertex_buffer_offset |-> 0, index_buffer_offset |-> 0,
                fs_image |-> RokolLoadFontTexture.texture]]

\* the lookup that falls back to the font texture
RokolLookupTextureOrFont(r, tex_id) ==
    IF TexturesGet(r.textures, tex_id).some
    THEN TexturesGet(r.textures, tex_id)
    ELSE Some(r.font_texture)

\* ImGuiRokolGfx::lookup_texture
RokolLookupTexture(r, tex_id) ==
    IF tex_id = FONT_TEXTUER_ID
    THEN Some(r.font_texture)
    ELSE IF TexturesGet(r.textures, tex_id).some
         THEN TexturesGet(r.textures, tex_id)
         ELSE None

\* ImGuiRokolGfx::before_render
ImGuiRokolGfxBeforeRender(r) ==
    [renderer |-> [r EXCEPT !.binds.vertex_buffer_offset = 0,
                            !.binds.index_buffer_offset = 0],
     calls |-> <<Call("begin_default_pass", "state", [w |-> 1280, h |-> 720]),
                 Call("apply_pipeline", "state", [pip |-> "pip"])>>]

\* ImGuiRokolGfx::after_render
ImGuiRokolGfxAfterRender == <<Call("end_pass", "state", [pass |-> "default"])>>

\* ImGuiRokolGfx::draw, `if params.idx_offset == 0`
RokolDrawFirst(params) ==
    <<Call("append_buffer", "upload",
           [target |-> "vertex_buffers[0]", data |-> params.vtx_buffer]),
      Call("append_buffer", "upload",
           [target |-> "index_buffer", data |-> params.idx_buffer]),
      Call("apply_uniforms", "uniform",
           OrthoArgs(params.display.left, params.display.right,
                     params.display.top, params.display.bottom, 0, 1))>>

\* ImGuiRokolGfx::draw, from `// 2. set texture` on
RokolDrawRest(r, calls, params, tex) ==
    IF ~tex.some
    THEN DrawResult(r, calls \o <<Lookup(params.tex_id, tex)>>,
                    BadTexture(params.tex_id))
    ELSE DrawResult(
             [r EXCEPT !.binds.fs_image = tex.val],
             calls \o <<Lookup(params.tex_id, tex)>>
             \o <<Call("apply_bindings", "texture",
                       [texture |-> Some(tex.val),
                        vertex_buffer_offset |-> r.binds.vertex_buffer_offset,
                        index_buffer_offset |-> r.binds.index_buffer_offset]),
                  Call("draw", "draw",
                       [base_element |-> params.idx_offset,
                        num_elements |-> params.n_elems,
                        num_instances |-> 1])>>,
             Ok)

\* ImGuiRokolGfx::draw
ImGuiRokolGfxDraw(r, params) ==
    RokolDrawRest(r,
                  IF params.idx_offset = 0 THEN RokolDrawFirst(params) ELSE <<>>,
                  params,
                  RokolLookupTexture(r, params.tex_id))

-----------------------------------------------------------------------------
(* Ownership of GPU textures: fna3d.rs RcTexture2d, glow/tex.rs Texture *)

\* a texture just created (RcTexture2d::new, Texture::new): one owner, no
\* release sent to the device, no clone made
TextureOwned == [owners |-> 1, released |-> 0, clones |-> 0]

\* one more owner: Rc::clone of RcTexture2d::texture, or the derived Clone of
\* Texture and TextureDrop, which copies the texture id
TextureCloned(g) == [g EXCEPT !.owners = @ + 1, !.clones = @ + 1]

\* an owner of an fna3d texture is dropped: Drop for TextureData2d, and with
\* it add_dispose_texture, runs when the last Rc goes
RcTexture2dDropped(g) ==
    [g EXCEPT !.owners = @ - 1,
              !.released = IF g.owners = 1 THEN @ + 1 ELSE @]

\* an owner of a glow texture is dropped: Drop for TextureDrop calls
\* delete_texture for every value, clones included
GlowTextureDropped(g) ==
    [g EXCEPT !.owners = @ - 1, !.released = @ + 1]

-----------------------------------------------------------------------------
(* lib.rs: Backend, BackendUi *)

\* a Backend on which no frame was begun
BackendNew ==
    [in_frame |-> FALSE, calls |-> <<>>, frames |-> 0, returned |-> "none"]

\* Backend::begin_frame: platform.prepare_frame(io, window), then
\* imgui.frame() for the BackendUi
BackendBeginFrame(b) ==
    [b EXCEPT !.in_frame = TRUE,
              !.frames = @ + 1,
              !.calls = @ \o <<Call("prepare_frame", "platform", [io |-> "io"]),
                               Call("frame", "imgui", [ui |-> "ui"])>>,
              !.returned = "none"]

\* BackendUi::end_frame that drops the error of render
BackendUiEndFrameErrorDropped(b, rendered, uploads) ==
    [b EXCEPT !.in_frame = FALSE,
              !.calls = @ \o <<Call("prepare_render", "platform", [ui |-> "ui"]),
                               Call("render", "imgui", [ui |-> "ui"]),
                               Call("render", "renderer",
                                    [result |-> rendered, uploads |-> uploads])>>,
              !.returned = IF rendered = Panic THEN Panic ELSE Ok]

\* BackendUi::end_frame: platform.prepare_render(&ui, window), then
\* renderer.render(ui.render(), device)?, then Ok(()); rendered is what
\* render returned and uploads the number of geometry uploads it made
BackendUiEndFrame(b, rendered, uploads) ==
    [b EXCEPT !.in_frame = FALSE,
              !.calls = @ \o <<Call("prepare_render", "platform", [ui |-> "ui"]),
                               Call("render", "imgui", [ui |-> "ui"]),
                               Call("render", "renderer",
                                    [result |-> rendered, uploads |-> uploads])>>,
              !.returned = IF rendered.ok THEN Ok ELSE rendered]


-----------------------------------------------------------------------------
(* render: the hooks around `for params in DrawParamsIterator::new(draw_data)` *)

\* the draw of the renderer at hand
Draw(r, params) ==
    CASE r.kind = "fna3d" -> ImGuiFna3dDraw(r, params)
      [] r.kind = "glow" -> ImGuiGlowDraw(r, params)
      [] r.kind = "rokol" -> ImGuiRokolGfxDraw(r, params)

\* the state of a call of render: the renderer, the iterator and what has
\* happened so far
RenderState(r, it, item, seen, items, called, calls, res) ==
    [renderer |-> r, iter |-> it, out |-> item, visited |-> seen,
     emitted |-> items, callbacks |-> called, trace |-> calls, result |-> res]

\* the state after a call of next that returned n
AfterNext(st, n) ==
    [st EXCEPT !.iter = n.iter, !.out = n.item,
               !.visited = st.visited \o n.visited,
               !.callbacks = st.callbacks \o n.callbacks]

\* the state after a draw whose error is dropped
AfterDrawErrorDropped(st, params, d) ==
    [st EXCEPT !.renderer = d.renderer,
               !.emitted = Append(st.emitted, params),
               !.trace = st.trace \o d.calls,
               !.result = IF d.result = Panic THEN Panic ELSE Ok]

\* the state after draw(&params) returned d
AfterDraw(st, params, d) ==
    [st EXCEPT !.renderer = d.renderer,
               !.emitted = Append(st.emitted, params),
               !.trace = st.trace \o d.calls,
               !.result = d.result]

\* `for params in iterator { draw(&params)?; }`: the loop takes items until
\* next returns None and leaves render at the first error
RECURSIVE ForParamsDraw(_, _)
ForParamsStep(data, st, n) ==
    IF ~n.item.some
    THEN AfterNext(st, n)
    ELSE ForParamsDraw(data, AfterDraw(AfterNext(st, n), n.item.val,
                                       Draw(st.renderer, n.item.val)))
ForParamsDraw(data, st) ==
    IF ~st.result.ok
    THEN st
    ELSE ForParamsStep(data, st, DrawParamsIteratorNext(data, st.iter, <<>>))

\* the hook after the loop runs when the loop has not left render
AfterLoop(st, calls) ==
    IF st.result.ok THEN [st EXCEPT !.trace = st.trace \o calls] ELSE st

\* the state of render when the loop begins: b is what before_render did
BeforeLoop(b, data) ==
    RenderState(b.renderer, DrawParamsIteratorNew(data), None, <<>>, <<>>, <<>>,
                b.calls, Ok)

\* ImGuiFna3d::render
ImGuiFna3dRender(r, data) ==
    ForParamsDraw(data, BeforeLoop([renderer |-> r, calls |-> ImGuiFna3dBeforeRender],
                                   data))

\* helper::render, which ImGuiGlow::render calls: before_render, the loop,
\* after_render
HelperRender(r, data) ==
    AfterLoop(ForParamsDraw(data, BeforeLoop(ImGuiGlowBeforeRender(r), data)),
              ImGuiGlowAfterRender)

\* ImGuiRokolGfx::render
ImGuiRokolGfxRender(r, data) ==
    AfterLoop(ForParamsDraw(data, BeforeLoop(ImGuiRokolGfxBeforeRender(r), data)),
              ImGuiRokolGfxAfterRender)

\* Renderer::render of the renderer at hand
RendererRender(r, data) ==
    CASE r.kind = "fna3d" -> ImGuiFna3dRender(r, data)
      [] r.kind = "glow" -> HelperRender(r, data)
      [] r.kind = "rokol" -> ImGuiRokolGfxRender(r, data)

-----------------------------------------------------------------------------
(* The iterator on its own: new, then calls of next *)

InitIter ==
    /\ draw_data \in IterFrames
    /\ iter = DrawParamsIteratorNew(draw_data)
    /\ fonts = [tex_id |-> 0]
    /\ created = <<>>
    /\ proj = None
    /\ gpu = <<>>
    /\ backend = BackendNew
    /\ out = None
    /\ ncalls = 0
    /\ visited = <<>>
    /\ emitted = <<>>
    /\ callbacks = <<>>
    /\ renderer = NoRenderer
    /\ pc = "idle"
    /\ trace = <<>>
    /\ result = "none"
    /\ resolved = None
    /\ last_id = None
    /\ upload = None

\* one call of DrawParamsIterator::next
IterNext ==
    /\ ncalls < MaxNextCalls
    /\ LET r == DrawParamsIteratorNext(draw_data, iter, <<>>)
       IN  /\ iter' = r.iter
           /\ out' = r.item
           /\ visited' = visited \o r.visited
           /\ emitted' = IF r.item.some THEN Append(emitted, r.item.val) ELSE emitted
           /\ callbacks' = callbacks \o r.callbacks
    /\ ncalls' = ncalls + 1
    /\ UNCHANGED <<ext_vars, ctor_vars, proj, draw_data, render_vars>>

NextIter == IterNext

SpecIter == InitIter /\ [][NextIter]_vars

-----------------------------------------------------------------------------
(* The renderers: the texture registry, render, and the geometry uploads *)

\* a renderer may register at most MaxInserts textures
MaxInserts == 2

\* no frame is being rendered
NoData == DrawData(Display(<<0, 0>>, <<0, 0>>, <<0, 0>>), <<>>)

\* Commands of the rendered frames: text on the whole framebuffer, a user
\* image, a user image right of the framebuffer, and a ResetRenderState
RenderText == Elements(600, 0, <<0, 0, 800, 600>>, FONT_TEXTUER_ID)
RenderImage == Elements(600, 4, <<10, 20, 300, 200>>, 0)
RenderCulled == Elements(600, 0, <<900, 0, 950, 50>>, 0)
RenderCmds == {RenderText, RenderImage, RenderCulled, ResetRenderState}

\* Commands of the frames with a user callback between the text
CallbackCmds ==
    {Elements(600, 0, <<0, 0, 800, 600>>, FONT_TEXTUER_ID),
     RawCallback("cb", "payload")}

\* Commands of the frames with much text: 2050 quads each
LargeText == Elements(12300, 0, <<0, 0, 800, 600>>, FONT_TEXTUER_ID)
LargeCmds == {LargeText}

\* Commands of the frames of a minimised window
MinimisedCmds ==
    {Elements(600, 0, <<0, 0, 800, 600>>, FONT_TEXTUER_ID),
     Elements(600, 0, <<10, 20, 300, 200>>, 0)}

MinimisedDisplays ==
    {Display(<<0, 0>>, <<0, 600>>, <<1, 1>>),
     Display(<<0, 0>>, <<800, 600>>, <<1, 0>>)}

RenderFrames ==
    {DrawData(Display(<<0, 0>>, <<800, 600>>, <<1, 1>>), ls) :
         ls \in ListSeqs(RenderCmds, MaxLists, MaxFrameCmds)
                 \cup ListSeqs(LargeCmds, MaxLists, MaxFrameCmds)
                 \cup ListSeqs(CallbackCmds, MaxLists, MaxFrameCmds)}
    \cup {DrawData(d, ls) : d \in MinimisedDisplays,
                            ls \in ListSeqs(MinimisedCmds, MaxLists, MaxFrameCmds)}
    \cup EdgeFrames

\* the textures the application registers
UserTextures == {"texA", "texB"}

\* the texture of a draw call, by the renderer's own lookup
LookupTexture(r, tex_id) ==
    CASE r.kind = "fna3d" -> Fna3dLookupTexture(r, tex_id)
      [] r.kind = "glow" -> GlowLookupTexture(r, tex_id)
      [] r.kind = "rokol" -> RokolLookupTexture(r, tex_id)

\* load_font_texture of the renderer of the given kind
LoadFontTexture(kind) ==
    CASE kind = "fna3d" -> Fna3dLoadFontTexture
      [] kind = "glow" -> GlowLoadFontTexture
      [] kind = "rokol" -> RokolLoadFontTexture

\* the state after ImGuiFna3d::init, ImGuiGlow::new or ImGuiRokolGfx::new
InitRenderer ==
    /\ renderer \in {ImGuiFna3dInit, ImGuiGlowNew, ImGuiRokolGfxNew}
    /\ fonts = LoadFontTexture(renderer.kind).fonts
    /\ created = LoadFontTexture(renderer.kind).calls
    /\ proj = None
    /\ gpu = (LoadFontTexture(renderer.kind).texture :> TextureOwned)
    /\ backend = BackendNew
    /\ pc = "idle"
    /\ trace = <<>>
    /\ result = "none"
    /\ resolved = None
    /\ last_id = None
    /\ upload = None
    /\ draw_data = NoData
    /\ iter = DrawParamsIteratorNew(NoData)
    /\ out = None
    /\ ncalls = 0
    /\ visited = <<>>
    /\ emitted = <<>>
    /\ callbacks = <<>>

\* renderer.textures_mut().insert(texture); only ImGuiFna3d has textures_mut
TexInsert(texture) ==
    /\ pc = "idle"
    /\ renderer.kind = "fna3d"
    /\ renderer.textures.next < MaxInserts
    /\ \E ins \in {TexturesInsert(renderer.textures, texture)} :
           /\ renderer' = [renderer EXCEPT !.textures = ins.textures]
           /\ last_id' = Some(ins.id)
    /\ UNCHANGED <<ext_vars, ctor_vars, proj, iter_vars, pc, trace, result, resolved, upload>>

\* renderer.textures_mut().remove(id)
TexRemove(id) ==
    /\ pc = "idle"
    /\ renderer.kind = "fna3d"
    /\ id \in DOMAIN renderer.textures.map
    /\ renderer' = [renderer EXCEPT !.textures = TexturesRemove(renderer.textures, id)]
    /\ UNCHANGED <<ext_vars, ctor_vars, proj, iter_vars, pc, trace, result, resolved, last_id, upload>>

\* renderer.textures_mut().replace(id, texture)
TexReplace(id, texture) ==
    /\ pc = "idle"
    /\ renderer.kind = "fna3d"
    /\ renderer' = [renderer EXCEPT
                        !.textures = TexturesReplace(renderer.textures, id, texture)]
    /\ UNCHANGED <<ext_vars, ctor_vars, proj, iter_vars, pc, trace, result, resolved, last_id, upload>>

\* the texture lookup of a draw call, for a command with texture id tex_id
TexLookup(tex_id) ==
    /\ pc = "idle"
    /\ resolved' = Some([tex_id |-> tex_id, found |-> LookupTexture(renderer, tex_id)])
    /\ UNCHANGED <<ext_vars, ctor_vars, proj, iter_vars, renderer, pc, trace, result, last_id, upload>>

\* Renderer::render(draw_data, device): what the call does to the renderer
\* and to the iterator
RenderCall(data) ==
    /\ pc = "idle"
    /\ \E st \in {RendererRender(renderer, data)} :
           /\ renderer' = st.renderer
           /\ iter' = st.iter
           /\ out' = st.out
           /\ visited' = st.visited
           /\ emitted' = st.emitted
           /\ callbacks' = st.callbacks
           /\ trace' = st.trace
           /\ result' = st.result
    /\ draw_data' = data
    /\ pc' = "done"
    /\ UNCHANGED <<gpu, ctor_vars, proj, ncalls, resolved, last_id, upload>>

\* Renderer::render(draw_data, device), called on the renderer itself
Render(data) ==
    /\ RenderCall(data)
    /\ UNCHANGED backend

\* render has returned to the frame loop, which drops the draw data and goes
\* on to the next frame; a panic ends the program
FrameEnd ==
    /\ pc = "done"
    /\ result # Panic
    /\ pc' = "idle"
    /\ draw_data' = NoData
    /\ iter' = DrawParamsIteratorNew(NoData)
    /\ out' = None
    /\ visited' = <<>>
    /\ emitted' = <<>>
    /\ callbacks' = <<>>
    /\ trace' = <<>>
    /\ result' = "none"
    /\ UNCHANGED <<ext_vars, ctor_vars, proj, renderer, ncalls, resolved, last_id, upload>>

Init == InitRenderer

\* the application registers one image, and may unregister it again
Next ==
    \/ renderer.textures.next = 0 /\ TexInsert("texA")
    \/ TexRemove(0)
    \/ \E data \in RenderFrames : Render(data)
    \/ FrameEnd

Spec == Init /\ [][Next]_vars

-----------------------------------------------------------------------------
(* The texture registry and the lookup on their own *)

\* the ids a command may carry
TexIds == (0..MaxInserts) \cup {FONT_TEXTUER_ID}

NextTex ==
    \/ \E texture \in UserTextures : TexInsert(texture)
    \/ \E id \in TexIds : TexRemove(id)
    \/ \E id \in TexIds, texture \in UserTextures : TexReplace(id, texture)
    \/ \E id \in TexIds : TexLookup(id)

SpecTex == InitRenderer /\ [][NextTex]_vars

\* register and unregister only
NextReg ==
    \/ \E texture \in UserTextures : TexInsert(texture)
    \/ \E id \in TexIds : TexRemove(id)
    \/ \E id \in TexIds : TexLookup(id)

SpecReg == InitRenderer /\ [][NextReg]_vars

-----------------------------------------------------------------------------
(* ortho_mat_gl on its own *)

\* (left, right), (bottom, top) and (near, far) of the calls: the 800x600
\* display as the renderers pass it, with top and bottom swapped and the
\* depth range 0..1, the call of the doc comment, and volumes off the origin
OrthoXs == {<<0, 800>>, <<0, 1280>>, <<100, 900>>, <<-50, 590>>, <<-400, 400>>}
OrthoYs == {<<600, 0>>, <<0, 720>>, <<650, 50>>, <<-300, 300>>, <<720, 0>>}
OrthoZs == {<<0, 1>>, <<-1, 1>>, <<1, 10>>, <<0, 100>>, <<2, 4>>}

\* let mat = ortho_mat_gl(left, right, bottom, top, near, far)
OrthoMatGlCall(left, right, bottom, top, near, far) ==
    /\ proj' = Some([args |-> OrthoArgs(left, right, bottom, top, near, far),
                     m |-> OrthoMatGl(left, right, bottom, top, near, far)])
    /\ UNCHANGED <<ext_vars, ctor_vars, iter_vars, render_vars>>

NextOrtho ==
    \E x \in OrthoXs, y \in OrthoYs, z \in OrthoZs :
        OrthoMatGlCall(x[1], x[2], y[1], y[2], z[1], z[2])

SpecOrtho == InitRenderer /\ [][NextOrtho]_vars

-----------------------------------------------------------------------------
(* The textures of the application and their owners *)

\* a texture is cloned at most MaxClones times
MaxClones == 2

\* ImGuiFna3d or ImGuiGlow has been constructed
InitOwn ==
    /\ InitRenderer
    /\ renderer.kind \in {"fna3d", "glow"}

\* RcTexture2d::new(raw, device, w, h) or Texture::new(gl, pixels, w, h)
TextureNew(t) ==
    /\ t \notin DOMAIN gpu
    /\ gpu' = gpu @@ (t :> TextureOwned)
    /\ UNCHANGED <<backend, ctor_vars, proj, iter_vars, render_vars>>

\* texture.clone()
TextureClone(t) ==
    /\ t \in DOMAIN gpu
    /\ gpu[t].owners >= 1
    /\ gpu[t].clones < MaxClones
    /\ gpu' = [gpu EXCEPT ![t] = TextureCloned(gpu[t])]
    /\ UNCHANGED <<backend, ctor_vars, proj, iter_vars, render_vars>>

\* an owner of the texture goes out of scope
TextureDropOwner(t) ==
    /\ t \in DOMAIN gpu
    /\ gpu[t].owners >= 1
    /\ gpu' = [gpu EXCEPT ![t] = IF renderer.kind = "fna3d"
                                 THEN RcTexture2dDropped(gpu[t])
                                 ELSE GlowTextureDropped(gpu[t])]
    /\ UNCHANGED <<backend, ctor_vars, proj, iter_vars, render_vars>>

NextOwn ==
    \/ \E t \in UserTextures : TextureNew(t)
    \/ \E t \in UserTextures : TextureClone(t)
    \/ \E t \in UserTextures : TextureDropOwner(t)

SpecOwn == InitOwn /\ [][NextOwn]_vars

-----------------------------------------------------------------------------
(* The frames of a Backend *)

\* the application begins at most MaxBackendFrames frames
MaxBackendFrames == 2

\* the frames the application draws: nothing, text in one list, text in two
\* lists, text after a culled image, an image that is not registered alone and
\* after text, text around a ResetRenderState, and more text than a glow
\* buffer holds
BackendCmds == {<<>>,
                <<<<RenderText>>>>,
                <<<<RenderText, RenderText>>>>,
                <<<<RenderText>>, <<RenderText, RenderText>>>>,
                <<<<RenderCulled, RenderText>>>>,
                <<<<RenderImage>>>>,
                <<<<RenderText, RenderImage>>>>,
                <<<<RenderText, ResetRenderState, RenderText>>>>,
                <<<<LargeText, LargeText>>>>}

BackendFrames ==
    {DrawData(Display(<<0, 0>>, <<800, 600>>, <<1, 1>>),
              [l \in DOMAIN ls |-> DrawList(ls[l])]) : ls \in BackendCmds}

\* backend.begin_frame(&window): the draw data of the frame before is gone
BeginFrame ==
    /\ ~backend.in_frame
    /\ backend.frames < MaxBackendFrames
    /\ pc = "done" => result # Panic
    /\ backend' = BackendBeginFrame(backend)
    /\ pc' = "idle"
    /\ draw_data' = NoData
    /\ iter' = DrawParamsIteratorNew(NoData)
    /\ out' = None
    /\ visited' = <<>>
    /\ emitted' = <<>>
    /\ callbacks' = <<>>
    /\ trace' = <<>>
    /\ result' = "none"
    /\ UNCHANGED <<gpu, ctor_vars, proj, renderer, ncalls, resolved, last_id, upload>>

\* ui.end_frame(&mut window, &mut device), the GUI having built the draw data
EndFrame(data) ==
    /\ backend.in_frame
    /\ RenderCall(data)
    /\ backend' = BackendUiEndFrame(
                      backend, result',
                      Len(SelectSeq(trace', LAMBDA c : c.kind = "upload")))

NextBackend ==
    \/ BeginFrame
    \/ \E data \in BackendFrames : EndFrame(data)

SpecBackend == InitRenderer /\ [][NextBackend]_vars

-----------------------------------------------------------------------------
(* The geometry buffers of ImGuiFna3d on their own *)

\* lengths of the uploaded slices, around the capacity of Batch::new
UploadVtxLens == {4, 32748, 32749, 32768, 32769, 40000}
UploadIdxLens == {6, 49150, 49151, 49152, 49153, 60000}

InitBuf ==
    /\ InitRenderer
    /\ renderer = ImGuiFna3dInit

\* self.vbuf.upload_vertices(data, device), data: &[imgui::DrawVert]
UploadVertices(n) ==
    /\ renderer.kind = "fna3d"
    /\ LET data == [list |-> 0, len |-> n]
           up == GpuVertexBufferUpload(renderer.batch.vbuf, renderer.batch.next_buf,
                                       data, SizeOfDrawVert)
       IN  /\ renderer' = [renderer EXCEPT !.batch.vbuf = up.buffer,
                                           !.batch.next_buf = up.next_buf]
           /\ trace' = up.calls
           /\ upload' = Some([target |-> "vbuf", data_bytes |-> n * SizeOfDrawVert,
                              capacity_before |-> renderer.batch.vbuf.capacity_in_bytes,
                              buf_before |-> renderer.batch.vbuf.buf])
    /\ UNCHANGED <<ext_vars, ctor_vars, proj, iter_vars, pc, result, resolved, last_id>>

\* self.ibuf.upload_indices(data, device), data: &[imgui::DrawIdx]
UploadIndices(n) ==
    /\ renderer.kind = "fna3d"
    /\ LET data == [list |-> 0, len |-> n]
           up == GpuIndexBufferUpload(renderer.batch.ibuf, renderer.batch.next_buf,
                                      data, SizeOfDrawIdx)
       IN  /\ renderer' = [renderer EXCEPT !.batch.ibuf = up.buffer,
                                           !.batch.next_buf = up.next_buf]
           /\ trace' = up.calls
           /\ upload' = Some([target |-> "ibuf", data_bytes |-> n * SizeOfDrawIdx,
                              capacity_before |-> renderer.batch.ibuf.capacity_in_bytes,
                              buf_before |-> renderer.batch.ibuf.buf])
    /\ UNCHANGED <<ext_vars, ctor_vars, proj, iter_vars, pc, result, resolved, last_id>>

NextBuf ==
    \/ \E n \in UploadVtxLens : UploadVertices(n)
    \/ \E n \in UploadIdxLens : UploadIndices(n)

SpecBuf == InitBuf /\ [][NextBuf]_vars

-----------------------------------------------------------------------------
(* Properties *)

\* framebuffer size of a frame: display_size * framebuffer_scale per axis
FbWidth(data) == data.display_size[1] * data.framebuffer_scale[1]
FbHeight(data) == data.display_size[2] * data.framebuffer_scale[2]
Degenerate(data) == FbWidth(data) <= 0 \/ FbHeight(data) <= 0

\* the places of the calls of one kind in the trace
CallsAt(kind) == {i \in 1..Len(trace) : trace[i].kind = kind}

\* the command of the frame that an entry of visited stands for
CmdAt(v) == draw_data.lists[v.list].cmds[v.cmd]

\* (raw - display_offset) * framebuffer_scale on the four components
Transformed(raw, data) ==
    <<(raw[1] - data.display_pos[1]) * data.framebuffer_scale[1],
      (raw[2] - data.display_pos[2]) * data.framebuffer_scale[2],
      (raw[3] - data.display_pos[1]) * data.framebuffer_scale[1],
      (raw[4] - data.display_pos[2]) * data.framebuffer_scale[2]>>

\* the transformed clip rect [l, t, r, b] lies outside the framebuffer
Outside(rect, data) ==
    \/ rect[1] >= FbWidth(data)
    \/ rect[2] >= FbHeight(data)
    \/ rect[3] < 0
    \/ rect[4] < 0

\* the items emitted for a visited command: those of its list with its index
\* offset
EmittedFor(v) ==
    {e \in 1..Len(emitted) :
        /\ emitted[e].idx_buffer.list = v.list
        /\ emitted[e].idx_offset = CmdAt(v).cmd_params.idx_offset}

\* C1: when the framebuffer width or height of the frame is <= 0, render has
\* taken no item from the iterator, whatever lists and commands the frame has,
\* and has issued no primitive draw and no geometry upload.
C1_DegenerateFrame ==
    (pc = "done" /\ Degenerate(draw_data)) =>
        /\ emitted = <<>>
        /\ visited = <<>>
        /\ ~out.some
        /\ CallsAt("draw") = {}
        /\ CallsAt("upload") = {}

\* a degenerate frame with two lists of commands has been rendered
C1_Witness ==
    /\ pc = "done"
    /\ Degenerate(draw_data)
    /\ Len(draw_data.lists) >= 2
    /\ \A l \in DOMAIN draw_data.lists : Len(draw_data.lists[l].cmds) >= 1
    /\ result = Ok

\* C2: an Elements command that render reaches is culled (no item is emitted
\* for it) exactly when its transformed clip rect has l >= framebuffer width
\* or t >= framebuffer height or r < 0 or b < 0; draws and uploads come from
\* emitted items only, one draw at most per item and one vertex and one index
\* upload at most per item with index offset 0.
C2_CulledIffOutside ==
    pc = "done" =>
        /\ \A k \in 1..Len(visited) :
               CmdAt(visited[k]).type = "Elements" =>
                   (Outside(Transformed(CmdAt(visited[k]).cmd_params.clip_rect,
                                        draw_data), draw_data)
                    <=> EmittedFor(visited[k]) = {})
        /\ Cardinality(CallsAt("draw")) <= Len(emitted)
        /\ Cardinality(CallsAt("upload")) <=
               2 * Cardinality({e \in 1..Len(emitted) : emitted[e].idx_offset = 0})

\* on an 800x600 framebuffer, render went past a command with clip rect
\* [900, 0, 950, 50] without an item and emitted one with [0, 0, 800, 600]
C2_Witness ==
    /\ pc = "done"
    /\ FbWidth(draw_data) = 800
    /\ FbHeight(draw_data) = 600
    /\ \E j, k \in 1..Len(visited) :
           /\ j < k
           /\ CmdAt(visited[j]).type = "Elements"
           /\ CmdAt(visited[j]).cmd_params.clip_rect = <<900, 0, 950, 50>>
           /\ EmittedFor(visited[j]) = {}
           /\ CmdAt(visited[k]).type = "Elements"
           /\ CmdAt(visited[k]).cmd_params.clip_rect = <<0, 0, 800, 600>>
           /\ EmittedFor(visited[k]) # {}
    /\ Cardinality(CallsAt("draw")) = 1

\* the iterator has gone through all lists: next found no further list
Exhausted == ncalls > 0 /\ ~out.some /\ ~iter.draw_list.some

\* the visited commands that are Elements commands inside the framebuffer
Kept ==
    SelectSeq(visited,
              LAMBDA v : /\ CmdAt(v).type = "Elements"
                         /\ ~Outside(Transformed(CmdAt(v).cmd_params.clip_rect,
                                                 draw_data), draw_data))

C4_ClipTransform ==
    \A k \in 1..Len(visited) :
        CmdAt(visited[k]).type = "Elements" =>
            /\ visited[k].clip_rect =
                   Transformed(CmdAt(visited[k]).cmd_params.clip_rect, draw_data)
            /\ (draw_data.display_pos = <<0, 0>>
                /\ draw_data.framebuffer_scale = <<1, 1>>) =>
                   visited[k].clip_rect = CmdAt(visited[k]).cmd_params.clip_rect

\* the clip rect [0, 0, 800, 600] of a display at (100, 50) with scale (2, 2)
\* became [-200, -100, 1400, 1100]
C4_Witness ==
    /\ draw_data.display_pos = <<100, 50>>
    /\ draw_data.framebuffer_scale = <<2, 2>>
    /\ \E k \in 1..Len(visited) :
           /\ CmdAt(visited[k]).type = "Elements"
           /\ CmdAt(visited[k]).cmd_params.clip_rect = <<0, 0, 800, 600>>
           /\ visited[k].clip_rect = <<-200, -100, 1400, 1100>>

\* C5: a lookup of the id usize::MAX gives the font texture of the renderer,
\* whatever the registry holds, in each of the three renderers.
C5_SentinelIsFont ==
    (resolved.some /\ resolved.val.tex_id = USIZE_MAX) =>
        resolved.val.found = Some(renderer.font_texture)

\* the registry holds a user texture, under the id usize::MAX too, and the
\* lookup of usize::MAX gave the font texture
C5_Witness ==
    /\ resolved.some
    /\ resolved.val.tex_id = USIZE_MAX
    /\ resolved.val.found = Some("font")
    /\ USIZE_MAX \in DOMAIN renderer.textures.map
    /\ renderer.textures.map[USIZE_MAX] # "font"
    /\ renderer.textures.next > 0

\* C6: a lookup, during render, of an id that is not usize::MAX and not in
\* the registry finds nothing, is the last thing render does, and render
\* returns BadTexture with that id; render does not panic on it.
C6_UnknownTextureIsError ==
    pc = "done" =>
        \A k \in CallsAt("lookup") :
            (/\ trace[k].args.tex_id # USIZE_MAX
             /\ trace[k].args.tex_id \notin DOMAIN renderer.textures.map) =>
                /\ trace[k].args.found = None
                /\ k = Len(trace)
                /\ result = BadTexture(trace[k].args.tex_id)

\* the id that the registry handed out is in the registry no more, and a
\* frame that uses it ended with BadTexture
C6_Witness ==
    /\ pc = "done"
    /\ renderer.kind = "fna3d"
    /\ last_id = Some(0)
    /\ 0 \notin DOMAIN renderer.textures.map
    /\ result = BadTexture(0)
    /\ trace[Len(trace)].kind = "lookup"

\* C7: after registrations and removals, the id of the last registration is
\* not usize::MAX, the ids are handed out from 0 upwards, and the registry
\* holds nothing under usize::MAX.
C7_RegistryNeverSentinel ==
    /\ last_id.some =>
           /\ last_id.val # USIZE_MAX
           /\ last_id.val # FONT_TEXTUER_ID
           /\ last_id.val = renderer.textures.next - 1
    /\ ~last_id.some => renderer.textures.next = 0
    /\ DOMAIN renderer.textures.map \subseteq 0..(renderer.textures.next - 1)
    /\ FONT_TEXTUER_ID \notin DOMAIN renderer.textures.map

\* two textures were registered, the first one was removed again
C7_Witness ==
    /\ renderer.kind = "fna3d"
    /\ last_id = Some(1)
    /\ DOMAIN renderer.textures.map = {1}

\* the reallocations of the last upload: the buffers generated
Reallocations == {i \in 1..Len(trace) : trace[i].op \in {"gen_vertex_buffer",
                                                         "gen_index_buffer"}}

\* C8: an upload of more bytes than the capacity reallocates once, to a size
\* that holds the data; an upload of at most as many bytes as the capacity
\* does not reallocate.
C8_GrowthOnlyWhenNeeded ==
    upload.some =>
        /\ upload.val.data_bytes > upload.val.capacity_before =>
               /\ Cardinality(Reallocations) = 1
               /\ \A i \in Reallocations : trace[i].args.size >= upload.val.data_bytes
        /\ upload.val.data_bytes <= upload.val.capacity_before =>
               Reallocations = {}

\* C9: the write offsets of the two buffers of the glow renderer stay within
\* 0..capacity_bytes, and the assert of append holds in every frame.
C9_AppendWithinCapacity ==
    renderer.kind = "glow" =>
        /\ 0 <= renderer.res.vbuf.len_bytes
        /\ renderer.res.vbuf.len_bytes <= renderer.res.vbuf.capacity_bytes
        /\ 0 <= renderer.res.ibuf.len_bytes
        /\ renderer.res.ibuf.len_bytes <= renderer.res.ibuf.capacity_bytes
        /\ pc = "done" => result # Panic

\* the element count and the first index of a primitive draw
DrawnCount(call) ==
    CASE call.op = "draw_indexed_primitives" -> 3 * call.args.primitive_count
      [] call.op = "draw_elements_base_vertex" -> call.args.count
      [] call.op = "draw" -> call.args.num_elements
DrawnFirstIndex(call) ==
    CASE call.op = "draw_indexed_primitives" -> call.args.start_index
      [] call.op = "draw_elements_base_vertex" -> call.args.offset \div SizeOfDrawIdx
      [] call.op = "draw" -> call.args.base_element

\* C10: a frame of one list with two emitted commands of one texture, with
\* index offsets 0 and k > 0: render uploads the vertex and the index buffer
\* once, before the first draw, and draws twice, each draw with the count and
\* the index offset of its command.
C10_UploadOnceDrawTwice ==
    (/\ pc = "done"
     /\ Len(draw_data.lists) = 1
     /\ Len(emitted) = 2
     /\ emitted[1].tex_id = emitted[2].tex_id
     /\ emitted[1].idx_offset = 0
     /\ emitted[2].idx_offset > 0) =>
        /\ Cardinality(CallsAt("upload")) = 2
        /\ Cardinality(CallsAt("draw")) = 2
        /\ \A u \in CallsAt("upload"), d \in CallsAt("draw") : u < d
        /\ \A d \in CallsAt("draw") :
               LET e == Cardinality({x \in CallsAt("draw") : x <= d})
               IN  /\ DrawnCount(trace[d]) = emitted[e].n_elems
                   /\ DrawnFirstIndex(trace[d]) = emitted[e].idx_offset

\* the commands of the frame, as list and place in the list
AllCmds(data) ==
    UNION {{<<l, c>> : c \in DOMAIN data.lists[l].cmds} : l \in DOMAIN data.lists}

\* C11: when a texture lookup of render finds nothing, no primitive draw
\* follows it, the draws issued are those of the items before the failing one,
\* one each, next is not called again, and render returns BadTexture with the
\* id of the failing item.
C11_AbortOnBadTexture ==
    pc = "done" =>
        \A k \in CallsAt("lookup") :
            ~trace[k].args.found.some =>
                /\ \A d \in CallsAt("draw") : d < k
                /\ Len(emitted) >= 1
                /\ Cardinality(CallsAt("draw")) = Len(emitted) - 1
                /\ out = Some(emitted[Len(emitted)])
                /\ result = BadTexture(emitted[Len(emitted)].tex_id)

\* a frame whose second emitted command has an unknown texture: one draw was
\* issued, and a command after the failing one was never taken
C11_Witness ==
    /\ pc = "done"
    /\ result = BadTexture(0)
    /\ Len(emitted) = 2
    /\ Cardinality(CallsAt("draw")) = 1
    /\ Len(visited) < Cardinality(AllCmds(draw_data))

\* the Elements commands of the frame that lie inside the framebuffer and
\* whose texture the renderer can resolve
Drawable ==
    {x \in AllCmds(draw_data) :
        LET cmd == draw_data.lists[x[1]].cmds[x[2]]
        IN  /\ cmd.type = "Elements"
            /\ ~Outside(Transformed(cmd.cmd_params.clip_rect, draw_data), draw_data)
            /\ LookupTexture(renderer, cmd.cmd_params.texture_id).some}

\* C12: an unknown texture fails the draw of its own command only: in a frame
\* of Elements commands, every command inside the framebuffer whose texture
\* resolves has got its item and its primitive draw when render returns,
\* also after a command whose texture was unknown.
C12_ContinueAfterBadTexture ==
    (/\ pc = "done"
     /\ ~Degenerate(draw_data)
     /\ result # Panic
     /\ \A x \in AllCmds(draw_data) :
            draw_data.lists[x[1]].cmds[x[2]].type = "Elements") =>
        /\ \A x \in Drawable : EmittedFor([list |-> x[1], cmd |-> x[2]]) # {}
        /\ Cardinality(CallsAt("draw")) = Cardinality(Drawable)

\* command x of the frame comes after the visited command v: in a later
\* list, or later in the same list
After(x, v) == x[1] > v.list \/ (x[1] = v.list /\ x[2] > v.cmd)

\* C13: a ResetRenderState command that render reaches is skipped: render
\* does not fail on it, and when render has returned Ok every Elements
\* command inside the framebuffer that follows it, in its list or in a later
\* list, has got its item and its primitive draw.
C13_ResetRenderStateSkipped ==
    pc = "done" =>
        \A k \in 1..Len(visited) :
            CmdAt(visited[k]).type = "ResetRenderState" =>
                /\ result = Ok \/ Len(emitted) > 0
                /\ result = Ok =>
                       /\ \A x \in AllCmds(draw_data) :
                              (/\ After(x, visited[k])
                               /\ draw_data.lists[x[1]].cmds[x[2]].type = "Elements"
                               /\ ~Outside(Transformed(
                                       draw_data.lists[x[1]].cmds[x[2]]
                                           .cmd_params.clip_rect,
                                       draw_data), draw_data)) =>
                                  EmittedFor([list |-> x[1], cmd |-> x[2]]) # {}
                       /\ Cardinality(CallsAt("draw")) = Len(emitted)

\* the Elements commands inside the framebuffer that follow the visited
\* command v in the frame
KeptAfter(v) ==
    {x \in AllCmds(draw_data) :
        /\ After(x, v)
        /\ draw_data.lists[x[1]].cmds[x[2]].type = "Elements"
        /\ ~Outside(Transformed(draw_data.lists[x[1]].cmds[x[2]].cmd_params.clip_rect,
                                draw_data), draw_data)}

\* the invocations of a callback that next made on reaching the visited
\* command v
CallbacksAt(v) ==
    {i \in 1..Len(callbacks) : callbacks[i].after[Len(callbacks[i].after)] = v}

\* C14: when render has returned Ok, every RawCallback command it reached has
\* had its callback invoked exactly once, with the raw handle of the list that
\* owns the command and with the command's payload, no item was emitted for
\* it, and every Elements command inside the framebuffer that follows it has
\* been emitted.
C14_RawCallbackInvokedAndSkipped ==
    (pc = "done" /\ result = Ok) =>
        \A k \in 1..Len(visited) :
            CmdAt(visited[k]).type = "RawCallback" =>
                /\ Cardinality(CallbacksAt(visited[k])) = 1
                /\ \A i \in CallbacksAt(visited[k]) :
                       /\ callbacks[i].callback = CmdAt(visited[k]).callback
                       /\ callbacks[i].raw = visited[k].list
                       /\ callbacks[i].raw_cmd = CmdAt(visited[k]).raw_cmd
                /\ Len(emitted) <= Len(Kept)
                /\ \A x \in KeptAfter(visited[k]) :
                       EmittedFor([list |-> x[1], cmd |-> x[2]]) # {}

\* the Elements commands of the frame
ElementsCmds(data) ==
    {x \in AllCmds(data) : data.lists[x[1]].cmds[x[2]].type = "Elements"}

\* C15: over repeated calls of next the commands are taken in strictly
\* increasing order (list, then command), so none is taken twice and the
\* first list is never begun again; there are at most as many items as the
\* frame has Elements commands; after one call more than the frame has
\* commands the lists are exhausted; and from then on every call of next
\* returns None and takes no command, emits no item and invokes no callback.
C15_FiniteSinglePass ==
    /\ [](/\ \A j, k \in 1..Len(visited) :
                 j < k => \/ visited[j].list < visited[k].list
                          \/ /\ visited[j].list = visited[k].list
                             /\ visited[j].cmd < visited[k].cmd
          /\ Len(emitted) <= Cardinality(ElementsCmds(draw_data))
          /\ ncalls > Cardinality(AllCmds(draw_data)) => Exhausted)
    /\ [][Exhausted => /\ Exhausted'
                       /\ visited' = visited
                       /\ emitted' = emitted
                       /\ callbacks' = callbacks]_vars

\* a frame of two lists was exhausted after two items and next was called
\* again after that
C15_Witness ==
    /\ Exhausted
    /\ Len(draw_data.lists) = 2
    /\ Len(emitted) >= 2
    /\ Len(visited) = Cardinality(AllCmds(draw_data))
    /\ ncalls > Cardinality(AllCmds(draw_data)) + 1

\* the texture that a call of kind "texture" binds to the sampler
BoundTexture(call) ==
    IF call.op = "verify_sampler" THEN Some(call.args.texture) ELSE call.args.texture

\* the draws of the trace up to and including position d
DrawsUpTo(d) == {x \in CallsAt("draw") : x <= d}

\* the trace holds at s, t and d, with no draw from s to before d, a scissor
\* call with the origin of params.scissor, then a bind of the texture that
\* params.tex_id resolves to, then the draw
ScissorBindDraw(s, t, d, params) ==
    /\ s < t /\ t < d
    /\ \A x \in CallsAt("draw") : ~(s <= x /\ x < d)
    /\ trace[s].kind = "scissor"
    /\ trace[s].args.x = params.scissor.left
    /\ trace[s].args.y = params.scissor.top
    /\ trace[t].kind = "texture"
    /\ BoundTexture(trace[t]) = LookupTexture(renderer, params.tex_id)

\* C16: in every render call of every renderer the n-th primitive draw is
\* that of the n-th emitted item and is preceded, after the draw before it, by
\* a scissor call with that item's scissor rect and then by a bind of the
\* texture that the item's texture id resolves to.
C16_ScissorBindDraw ==
    pc = "done" =>
        \A d \in CallsAt("draw") :
            /\ Cardinality(DrawsUpTo(d)) <= Len(emitted)
            /\ \E s, t \in 1..d :
                   ScissorBindDraw(s, t, d, emitted[Cardinality(DrawsUpTo(d))])

\* equality of two quotients, by cross multiplication
FracEq(a, b) == a.num * b.den = b.num * a.den

\* scale * v + trans: where a matrix with this scale and this translation on
\* an axis takes the coordinate v of a point (x, y, z, 1)
Affine(scale, trans, v) ==
    Frac(scale.num * v * trans.den + trans.num * scale.den, scale.den * trans.den)

\* the entries of the matrix that are neither on its diagonal nor the
\* translation of its last column
OrthoZeroEntries == (0..15) \ {0, 5, 10, 12, 13, 14, 15}

\* C17: the matrix of ortho_mat_gl(left, right, bottom, top, near, far) takes
\* x = left to -1 and x = right to 1, y = bottom to -1 and y = top to 1,
\* z = -near to -1 and z = -far to 1, with the z scale -2 / (far - near) and
\* the z translation -(far + near) / (far - near); its last entry is 1 and its
\* other entries are 0.
C17_OrthoIsStandard ==
    proj.some =>
        /\ FracEq(Affine(proj.val.m[0], proj.val.m[12], proj.val.args.left), Frac(-1, 1))
        /\ FracEq(Affine(proj.val.m[0], proj.val.m[12], proj.val.args.right), Frac(1, 1))
        /\ FracEq(Affine(proj.val.m[5], proj.val.m[13], proj.val.args.bottom), Frac(-1, 1))
        /\ FracEq(Affine(proj.val.m[5], proj.val.m[13], proj.val.args.top), Frac(1, 1))
        /\ FracEq(Affine(proj.val.m[10], proj.val.m[14], -proj.val.args.near), Frac(-1, 1))
        /\ FracEq(Affine(proj.val.m[10], proj.val.m[14], -proj.val.args.far), Frac(1, 1))
        /\ FracEq(proj.val.m[10], Frac(-2, proj.val.args.far - proj.val.args.near))
        /\ FracEq(proj.val.m[14],
                  Frac(-(proj.val.args.far + proj.val.args.near),
                       proj.val.args.far - proj.val.args.near))
        /\ FracEq(proj.val.m[15], Frac(1, 1))
        /\ \A i \in OrthoZeroEntries : FracEq(proj.val.m[i], Frac(0, 1))

\* the positions of the constructor's calls of the given kind
CreatedAt(kind) == {i \in 1..Len(created) : created[i].kind = kind}

\* C18: from the construction of the renderer on, before and after every
\* render call, the constructor has built the atlas, then uploaded its pixels
\* to one texture, then set the tex_id of the atlas to usize::MAX; that
\* texture is the font texture of the renderer and what the sentinel id
\* resolves to; and no operation replaces the font texture or the tex_id.
C18_FontAtlasLoaded ==
    /\ [](/\ fonts.tex_id = USIZE_MAX
          /\ Cardinality(CreatedAt("font_data")) = 1
          /\ \A u \in CreatedAt("font_data") :
                 /\ created[u].args.texture = renderer.font_texture
                 /\ created[u].args.data = "rgba32"
                 /\ \E b \in CreatedAt("atlas") : b < u
                 /\ \E s \in CreatedAt("tex_id") :
                        u < s /\ created[s].args.tex_id = USIZE_MAX
          /\ LookupTexture(renderer, FONT_TEXTUER_ID) = Some(renderer.font_texture))
    /\ [][/\ renderer'.font_texture = renderer.font_texture
          /\ fonts' = fonts
          /\ created' = created]_vars

\* an image was registered and a frame drawn with text: the font texture is
\* still the one the constructor made
C18_Witness ==
    /\ pc = "done"
    /\ result = Ok
    /\ renderer.kind = "fna3d"
    /\ renderer.textures.next = 1
    /\ \E e \in 1..Len(emitted) : emitted[e].tex_id = FONT_TEXTUER_ID
    /\ \E k \in CallsAt("texture") :
           BoundTexture(trace[k]) = Some(created[3].args.texture)

\* the draw list of the command that the draw at position d of the trace
\* draws: the n-th draw is that of the n-th emitted item
ListOfDraw(d) == emitted[Cardinality(DrawsUpTo(d))].idx_buffer.list

\* the draws of the commands of list l, and the first of them
DrawsOf(l) == {d \in CallsAt("draw") : ListOfDraw(d) = l}
FirstDrawOf(l) == CHOOSE d \in DrawsOf(l) : \A x \in DrawsOf(l) : d <= x

\* the uploads of the vertex or index buffer of list l
UploadsOf(l) == {u \in CallsAt("upload") : trace[u].args.data.list = l}

\* position k of the trace lies before the first draw of list l and after
\* every draw before that one
BeforeFirstDrawOf(k, l) ==
    /\ k < FirstDrawOf(l)
    /\ \A x \in CallsAt("draw") : x < FirstDrawOf(l) => x < k

\* C19: in a render call, for every draw list of which a command is drawn,
\* the vertex and the index buffer of that list are uploaded once each and the
\* projection is set, all after the last draw of the lists before it and
\* before its own first draw, whatever the index offset of its first emitted
\* command is.
C19_UploadBeforeFirstDrawOfList ==
    pc = "done" =>
        \A l \in DOMAIN draw_data.lists :
            DrawsOf(l) # {} =>
                /\ Cardinality(UploadsOf(l)) = 2
                /\ \A u \in UploadsOf(l) : BeforeFirstDrawOf(u, l)
                /\ \E p \in CallsAt("uniform") : BeforeFirstDrawOf(p, l)

\* the buffers that hold indices, by the name the upload calls give them
IndexTargets == {"ELEMENT_ARRAY_BUFFER", "index_buffer"}

\* the bytes of the data of the upload call
UploadBytes(call) ==
    call.args.data.len * (IF call.args.target \in IndexTargets
                          THEN SizeOfDrawIdx ELSE SizeOfDrawVert)

\* the bytes appended to the target buffer by the first k calls of the trace
RECURSIVE AppendedBytes(_, _)
AppendedBytes(k, target) ==
    IF k = 0 THEN 0
    ELSE AppendedBytes(k - 1, target)
         + (IF trace[k].kind = "upload" /\ trace[k].args.target = target
            THEN UploadBytes(trace[k]) ELSE 0)

\* the byte position pos lies in what the upload at position u of the trace
\* appended to its buffer
InAppended(pos, u) ==
    /\ AppendedBytes(u - 1, trace[u].args.target) <= pos
    /\ pos < AppendedBytes(u, trace[u].args.target)

\* the byte positions in the index and in the vertex buffer at which the draw
\* at position d of the trace begins to read: glow gives them with the draw,
\* rokol with the apply_bindings before it
IndexReadStart(d) ==
    IF trace[d].op = "draw_elements_base_vertex"
    THEN trace[d].args.offset
    ELSE trace[d - 1].args.index_buffer_offset
         + trace[d].args.base_element * SizeOfDrawIdx
VertexReadStart(d) ==
    IF trace[d].op = "draw_elements_base_vertex"
    THEN (IF trace[d].args.base_vertex.some
          THEN trace[d].args.base_vertex.val * SizeOfDrawVert ELSE 0)
    ELSE trace[d - 1].args.vertex_buffer_offset

\* C20: on glow and rokol, in a frame of which commands of two or more draw
\* lists are drawn, every draw of a command whose list was uploaded begins to
\* read the index buffer and the vertex buffer inside what the upload of that
\* list appended, and so not in the data of another list.
C20_DrawReadsOwnList ==
    (/\ pc = "done"
     /\ renderer.kind \in {"glow", "rokol"}
     /\ \E l, k \in DOMAIN draw_data.lists :
            l # k /\ DrawsOf(l) # {} /\ DrawsOf(k) # {}) =>
        \A d \in CallsAt("draw") :
            Cardinality(UploadsOf(ListOfDraw(d))) = 2 =>
                \A u \in UploadsOf(ListOfDraw(d)) :
                    IF trace[u].args.target \in IndexTargets
                    THEN InAppended(IndexReadStart(d), u)
                    ELSE InAppended(VertexReadStart(d), u)

\* C21: the scissor rect of every emitted item is the clip rect of its
\* command after (raw - display_pos) * framebuffer_scale, the transform of the
\* culling test: its left is the transformed left, its top the transformed
\* top or, with the y axis up, the framebuffer height less the transformed
\* bottom, and its extents are those of the transformed rect.
C21_ScissorUsesClipTransform ==
    \A e \in 1..Len(emitted) :
        e <= Len(Kept) =>
            /\ emitted[e].scissor.left = Kept[e].clip_rect[1]
            /\ \/ emitted[e].scissor.top = Kept[e].clip_rect[2]
               \/ emitted[e].scissor.top = FbHeight(draw_data) - Kept[e].clip_rect[4]
            /\ emitted[e].scissor.right = Kept[e].clip_rect[3] - Kept[e].clip_rect[1]
            /\ emitted[e].scissor.bottom = Kept[e].clip_rect[4] - Kept[e].clip_rect[2]

\* the scissor calls of the trace up to and including position s
ScissorsUpTo(s) == {x \in CallsAt("scissor") : x <= s}

\* the raw clip rect of the command of the n-th emitted item
ClipRectOf(n) == CmdAt(Kept[n]).cmd_params.clip_rect

\* C22: the n-th scissor call of a render call is that of the n-th emitted
\* item, and its width and height are (right - left) * scale.x and
\* (bottom - top) * scale.y of the clip rect of that item's command.
C22_ScissorExtent ==
    pc = "done" =>
        \A s \in CallsAt("scissor") :
            /\ Cardinality(ScissorsUpTo(s)) <= Len(Kept)
            /\ trace[s].args.w =
                   (ClipRectOf(Cardinality(ScissorsUpTo(s)))[3]
                    - ClipRectOf(Cardinality(ScissorsUpTo(s)))[1])
                   * draw_data.framebuffer_scale[1]
            /\ trace[s].args.h =
                   (ClipRectOf(Cardinality(ScissorsUpTo(s)))[4]
                    - ClipRectOf(Cardinality(ScissorsUpTo(s)))[2])
                   * draw_data.framebuffer_scale[2]

\* the emitted item that the draw at position d of the trace draws
ItemOfDraw(d) == emitted[Cardinality(DrawsUpTo(d))]

\* C23: every primitive draw of a render call has the element count and the
\* first index of its item: glow count = n_elems and byte offset =
\* idx_offset * size of an index, rokol n_elems elements from idx_offset, fna3d
\* n_elems / 3 triangles from idx_offset with base vertex vtx_offset.
C23_DrawCountAndOffset ==
    pc = "done" =>
        \A d \in CallsAt("draw") :
            /\ DrawnCount(trace[d]) = ItemOfDraw(d).n_elems
            /\ DrawnFirstIndex(trace[d]) = ItemOfDraw(d).idx_offset
            /\ trace[d].op = "draw_elements_base_vertex" =>
                   trace[d].args.offset = ItemOfDraw(d).idx_offset * SizeOfDrawIdx
            /\ trace[d].op = "draw_indexed_primitives" =>
                   /\ trace[d].args.primitive_count = ItemOfDraw(d).n_elems \div 3
                   /\ trace[d].args.base_vertex = ItemOfDraw(d).vtx_offset

\* the places of the calls of one operation in the trace
OpsAt(op) == {i \in 1..Len(trace) : trace[i].op = op}

\* C24: a render call of rokol or glow that has returned, with Ok or with an
\* error of a draw, has run its hook after the loop once, as the last thing
\* it did: on rokol the begin_default_pass that opens the trace is matched by
\* one end_pass, on glow the bind that opens it by one unbind.
C24_AfterRenderAlwaysRuns ==
    (pc = "done" /\ result # Panic) =>
        /\ renderer.kind = "rokol" =>
               /\ Cardinality(OpsAt("begin_default_pass")) = 1
               /\ OpsAt("end_pass") = {Len(trace)}
        /\ renderer.kind = "glow" =>
               /\ trace[1].op = "bind"
               /\ OpsAt("unbind") = {Len(trace)}

\* the buffer of the renderer that the last upload wrote, and the byte size
\* of one element of it
UploadTarget ==
    IF upload.val.target = "vbuf" THEN renderer.batch.vbuf ELSE renderer.batch.ibuf
UploadElemSize ==
    IF upload.val.target = "vbuf" THEN SizeOfDrawVert ELSE SizeOfDrawIdx

\* the disposals that the last upload queued
Disposals == {i \in 1..Len(trace) : trace[i].op \in {"add_dispose_vertex_buffer",
                                                     "add_dispose_index_buffer"}}

\* C25: after every upload to a geometry buffer of ImGuiFna3d the capacity
\* holds the uploaded bytes and is not less than before; the upload wrote the
\* whole slice at offset 0 of the current buffer; and a reallocation queued
\* the old buffer for disposal once, generated the new buffer with the
\* recorded capacity, and made it at most one element larger than the data.
C25_BufferGrowth ==
    upload.some =>
        /\ UploadTarget.capacity_in_bytes >= upload.val.data_bytes
        /\ UploadTarget.capacity_in_bytes >= upload.val.capacity_before
        /\ Cardinality(CallsAt("upload")) = 1
        /\ \A u \in CallsAt("upload") :
               /\ trace[u].args.offset = 0
               /\ trace[u].args.buf = UploadTarget.buf
               /\ trace[u].args.data.len * UploadElemSize = upload.val.data_bytes
        /\ Cardinality(Disposals) = Cardinality(Reallocations)
        /\ \A i \in Disposals : trace[i].args.buf = upload.val.buf_before
        /\ \A i \in Reallocations :
               /\ Cardinality(Reallocations) = 1
               /\ trace[i].args.size = UploadTarget.capacity_in_bytes
               /\ trace[i].args.buf = UploadTarget.buf
               /\ UploadTarget.capacity_in_bytes
                      <= upload.val.data_bytes + UploadElemSize

\* C26: every texture has been released at most once, has no owner left when
\* it has been released, and has been released when its last owner is gone.
C26_ReleasedOnceAtLastOwner ==
    \A t \in DOMAIN gpu :
        /\ gpu[t].released <= 1
        /\ gpu[t].released >= 1 => gpu[t].owners = 0
        /\ gpu[t].owners = 0 => gpu[t].released = 1

BackendPattern ==
    << <<"platform", "prepare_frame">>, <<"imgui", "frame">>,
       <<"platform", "prepare_render">>, <<"imgui", "render">>,
       <<"renderer", "render">> >>

\* C28: over any number of frames the calls of a Backend repeat one pattern:
\* begin_frame calls prepare_frame of the platform once and then starts the
\* frame of the GUI; end_frame calls prepare_render of the platform once and
\* then render of the renderer once; and end_frame returns Ok when render
\* returned Ok, and otherwise what render returned.
C28_FrameProtocol ==
    \E n \in {Len(backend.calls)} :
        /\ \A i \in 1..n :
               <<backend.calls[i].kind, backend.calls[i].op>>
                   = BackendPattern[((i - 1) % 5) + 1]
        /\ n = IF backend.frames = 0 THEN 0
               ELSE 5 * (backend.frames - 1) + (IF backend.in_frame THEN 2 ELSE 5)
        /\ backend.in_frame => backend.returned = "none"
        /\ (backend.frames > 0 /\ ~backend.in_frame) =>
               /\ pc = "done"
               /\ backend.calls[n].args.result = result
               /\ backend.returned = IF result.ok THEN Ok ELSE result

\* two frames have ended: the first returned Ok, the second the BadTexture
\* error of its render call
C28_Witness ==
    /\ backend.frames = 2
    /\ ~backend.in_frame
    /\ backend.calls[5].args.result = Ok
    /\ ~backend.returned.ok
    /\ backend.returned.err = "BadTexture"
    /\ backend.returned = backend.calls[10].args.result

\* the display rect of a frame, y axis up
DisplayRectOf(data) ==
    Rect(data.display_pos[1], data.display_pos[2] + data.display_size[2],
         data.display_pos[1] + data.display_size[1], data.display_pos[2])

\* C29: every DrawParams of a frame carries the display rect of the frame
\* (left and bottom the display position, right and top the position plus the
\* size), and every projection that a renderer sets in the frame is built
\* from that rect with the top of the rect as its bottom and the bottom of
\* the rect as its top, near 0 and far 1.
C29_DisplayRectAndProjection ==
    pc = "done" =>
        /\ \A i \in 1..Len(emitted) : emitted[i].display = DisplayRectOf(draw_data)
        /\ \A u \in CallsAt("uniform") :
               trace[u].args = OrthoArgs(DisplayRectOf(draw_data).left,
                                         DisplayRectOf(draw_data).right,
                                         DisplayRectOf(draw_data).top,
                                         DisplayRectOf(draw_data).bottom, 0, 1)

\* a frame whose display does not start at the origin has been rendered by
\* the fna3d renderer, which emitted a command and set its projection
C29_Witness ==
    /\ pc = "done"
    /\ renderer.kind = "fna3d"
    /\ draw_data.display_pos = <<100, 50>>
    /\ Len(emitted) >= 1
    /\ \E u \in CallsAt("uniform") : trace[u].args.bottom = 650 /\ trace[u].args.top = 50

====
